---- MODULE Spec2Model ----
(***************************************************************************)
(* Model of the rether buffer allocator (src/buffer/alloc.rs) and of the   *)
(* model state machine built on top of it (src/model/tree.rs,              *)
(* src/model/base.rs).                                                     *)
(*                                                                         *)
(* A handle is a shared object (Arc<DynamicAllocHandle> or                 *)
(* Arc<StaticAllocHandle>): it lives in the sequence `handles` and is      *)
(* referred to by its index, so that a holder can keep a handle which the  *)
(* allocator has already removed from its map.                             *)
(***************************************************************************)
EXTENDS Integers, Sequences, FiniteSets, TLC

\* ------------------------------------------------------------------ bounds
MaxHandles == 3      \* handles ever created (allocate calls + static handles)
MaxSize    == 2      \* largest size passed to allocate / carried by an action
MaxRel     == 1      \* largest handle-relative offset of a ModifyAction
MaxSends   == 2      \* ModifyActions ever sent
MaxQueue   == 3      \* destroy requests pending at once
MaxWakes   == 2      \* wake() calls per model
MaxCoord   == 1      \* |cached translation| of a model
MaxVerts   == 4      \* vertices a Root's geometry grows to by add_child
MaxNodes   == 2      \* Nodes below a Root of SpecCompose
MaxBurst   == 3      \* ModifyActions ever sent by the sender threads of SpecFifo

Ids    == {"mesh1", "mesh2", "mesh3"}
Models == {"root"}
Sizes  == {0, 1, MaxSize}
Deltas == {-1, 1}
Threads == {"t1", "t2"}

\* inputs of the specifications that also exercise the modify queue
QueueIds   == {"mesh1", "mesh2"}
QueueSizes == {MaxSize}
\* <<relative offset, size>> of the ModifyActions sent
ActShapes  == {<<0, MaxSize>>, <<MaxRel, 1>>}

NoHandle == 0

VARIABLES
    handles,          \* heap of shared handles: Seq of [id, kind, offset, size, destroyed]
    packets,          \* BufferDynamicAllocator.packets : id -> handle index (NoHandle = absent)
    size,             \* BufferDynamicAllocator.size
    action_queue,     \* channel behind action_queue / dummy_action_sender
    destroy_requests, \* channel behind destroy_requests / dummy_destroy_sender
    updating,         \* the owner thread is inside update()'s while loop
    dropped,          \* the allocator, and with it both Receivers, has been dropped
    state,            \* per model: ModelState<T, H> [tag, htype, vertices, indices, handle]
    transform,        \* per model: cached Transform (translation component)
    ctx,              \* per model: context C (a point that is translated)
    sub_handles,      \* per model: the Root's Vec of Nodes [location, ctx, sub_handles]
    destroying,       \* per model: threads inside destroy(), between its match and its write
    translating,      \* per model: calls inside translate(), between its transform write
                      \* and its match, oldest first: Seq of [t, d]
    sent,             \* history: every action handed to send(), in send order
    applied,          \* history: every invocation of update's callback, in order
    updates,          \* history: the callback invocations of the last update() call
    overwritten,      \* history: allocate() has replaced a live id's entry
    wakes,            \* history: per model, number of wake() calls that set Awake
    result            \* outcome of the last call: what it returned / whether it panicked

allocVars == <<handles, packets, size>>
chanVars  == <<action_queue, destroy_requests, updating, dropped>>
modelVars == <<state, transform, ctx, sub_handles, destroying, translating>>
histVars  == <<sent, applied, updates, overwritten, wakes>>
vars      == <<handles, packets, size, action_queue, destroy_requests, updating, dropped,
               state, transform, ctx, sub_handles, destroying, translating, sent,
               applied, updates, overwritten, wakes, result>>

\* ----------------------------------------------------------------- helpers
NoResult ==
    [op |-> "none", ok |-> TRUE, id |-> "", h |-> NoHandle, m |-> "",
     offset |-> 0, size |-> 0, before |-> 0, ids |-> <<>>, chained |-> FALSE]

Res(op, ok) == [NoResult EXCEPT !.op = op, !.ok = ok]

\* handles currently registered in the allocator's map (packets.values())
LiveHandles == {packets[i] : i \in Ids} \ {NoHandle}

DynamicHandles == {h \in DOMAIN handles : handles[h].kind = "dynamic"}
StaticHandles  == {h \in DOMAIN handles : handles[h].kind = "static"}

\* the elements [offset, offset + size) of a handle
Region(hd) == {e \in 0..(hd.offset + hd.size) : e >= hd.offset /\ e < hd.offset + hd.size}

RECURSIVE SumSizes(_)
SumSizes(S) ==
    IF S = {} THEN 0
    ELSE LET h == CHOOSE x \in S : TRUE
         IN  handles[h].size + SumSizes(S \ {h})

\* DynamicAllocHandle::new
NewDynamicHandle(id, offset, n) ==
    [id |-> id, kind |-> "dynamic", offset |-> offset, size |-> n, destroyed |-> FALSE]

\* StaticAllocHandle::new
NewStaticHandle(id, offset, n) ==
    [id |-> id, kind |-> "static", offset |-> offset, size |-> n, destroyed |-> FALSE]

\* ------------------------------------------------------------- allocator
\* allocate: `let offset = self.size;`
AllocOffset_first(sz) == 0
AllocOffset(sz) == sz

\* allocate: `self.size += size;`
SizeAfterAllocate_one(sz, n) == sz + 1
SizeAfterAllocate(sz, n) == sz + n

\* free: `self.size -= remove_packet.size();`
SizeAfterFree_keep(sz, removed) == sz
SizeAfterFree(sz, removed) == sz - removed.size

\* free: `if packet.offset() > remove_packet.offset()`
IsAfter(packet, removed) == packet.offset > removed.offset

\* DynamicAllocHandle::move_offset_left
MoveOffsetLeft_none(hd, pos) == hd
MoveOffsetLeft_one(hd, pos) == [hd EXCEPT !.offset = hd.offset - 1]
MoveOffsetLeft(hd, pos) == [hd EXCEPT !.offset = hd.offset - pos]

\* DynamicAllocHandle::allocation
Allocation_start(hd) == [offset |-> 0, size |-> hd.size]
Allocation(hd) == [offset |-> hd.offset, size |-> hd.size]

\* BufferDynamicAllocator::get
Get(id) == packets[id]

Allocate(id, n) ==
    /\ ~updating
    /\ Len(handles) < MaxHandles
    /\ LET offset == AllocOffset(size)
           h      == Len(handles) + 1
       IN  /\ size' = SizeAfterAllocate(size, n)
           /\ handles' = Append(handles, NewDynamicHandle(id, offset, n))
           /\ packets' = [packets EXCEPT ![id] = h]
           /\ overwritten' = (overwritten \/ packets[id] # NoHandle)
           /\ result' = [Res("allocate", TRUE) EXCEPT !.id = id, !.h = h,
                            !.offset = offset, !.size = n, !.before = size]
    /\ UNCHANGED <<chanVars, modelVars, sent, applied, updates, wakes>>

\* free: `self.packets.remove(id)`: the handle registered under id, if any
PacketsRemove_stale(id) ==
    IF packets[id] # NoHandle THEN packets[id]
    ELSE IF \E h \in DOMAIN handles : handles[h].id = id
         THEN CHOOSE h \in DOMAIN handles : handles[h].id = id
         ELSE NoHandle
PacketsRemove(id) == packets[id]

\* allocate once every holder has dropped the Arc of the freed handle h: the
\* new handle takes the place of h on the heap
AllocateReuse(id, n, h) ==
    /\ ~updating
    /\ h \in DOMAIN handles
    /\ h \notin LiveHandles
    /\ LET offset == AllocOffset(size)
       IN  /\ size' = SizeAfterAllocate(size, n)
           /\ handles' = [handles EXCEPT ![h] = NewDynamicHandle(id, offset, n)]
           /\ packets' = [packets EXCEPT ![id] = h]
           /\ overwritten' = (overwritten \/ packets[id] # NoHandle)
           /\ result' = [Res("allocate", TRUE) EXCEPT !.id = id, !.h = h,
                            !.offset = offset, !.size = n, !.before = size]
    /\ UNCHANGED <<chanVars, modelVars, sent, applied, updates, wakes>>

Free(id) ==
    /\ ~updating
    /\ IF PacketsRemove(id) # NoHandle
       THEN LET r       == PacketsRemove(id)
                removed == handles[r]
                rest    == LiveHandles \ {r}
                moved   == [i \in DOMAIN handles |->
                              IF i \in rest /\ IsAfter(handles[i], removed)
                              THEN MoveOffsetLeft(handles[i], removed.size)
                              ELSE handles[i]]
            IN  /\ Len(destroy_requests) < MaxQueue
                /\ packets' = [packets EXCEPT ![id] = NoHandle]
                /\ size' = SizeAfterFree(size, removed)
                \* remove_packet.destroy(): flag + destroy request
                /\ handles' = [moved EXCEPT ![r].destroyed = TRUE]
                /\ destroy_requests' = Append(destroy_requests, removed.id)
                /\ result' = [Res("free", TRUE) EXCEPT !.id = id, !.h = r,
                                 !.offset = Allocation(moved[r]).offset,
                                 !.size = Allocation(moved[r]).size,
                                 !.before = size,
                                 !.chained = (result.op = "allocate" /\ result.id = id)]
       ELSE /\ UNCHANGED <<allocVars, destroy_requests>>
            /\ result' = [Res("free", FALSE) EXCEPT !.id = id, !.before = size]
    /\ UNCHANGED <<action_queue, updating, dropped, modelVars, histVars>>

\* Receiver::try_iter().collect() on the destroy requests: every pending
\* message, oldest first, and what is left in the channel
TryIter_one(q) ==
    IF q = <<>> THEN [ids |-> <<>>, rest |-> <<>>]
    ELSE [ids |-> <<Head(q)>>, rest |-> Tail(q)]
TryIter(q) == [ids |-> q, rest |-> <<>>]

\* BufferDynamicAllocator::get_destroyed_handles
GetDestroyedHandles ==
    /\ ~updating
    /\ destroy_requests' = TryIter(destroy_requests).rest
    /\ result' = [Res("get_destroyed_handles", TRUE) EXCEPT
                     !.ids = TryIter(destroy_requests).ids]
    /\ UNCHANGED <<allocVars, action_queue, updating, dropped, modelVars, histVars>>

\* free as a function of the allocator's fields a = [handles, packets, size,
\* requests], for the calls the owner makes in a row with nothing in between
FreeIn_echo(a, id) ==
    IF a.packets[id] = NoHandle THEN [a EXCEPT !.requests = Append(@, id)]
    ELSE LET r       == a.packets[id]
             removed == a.handles[r]
         IN  [handles  |-> [a.handles EXCEPT ![r].destroyed = TRUE],
              packets  |-> [a.packets EXCEPT ![id] = NoHandle],
              size     |-> SizeAfterFree(a.size, removed),
              requests |-> Append(a.requests, removed.id)]
FreeIn(a, id) ==
    IF a.packets[id] = NoHandle THEN a
    ELSE LET r       == a.packets[id]
             removed == a.handles[r]
             rest    == ({a.packets[i] : i \in Ids} \ {NoHandle}) \ {r}
             moved   == [i \in DOMAIN a.handles |->
                           IF i \in rest /\ IsAfter(a.handles[i], removed)
                           THEN MoveOffsetLeft(a.handles[i], removed.size)
                           ELSE a.handles[i]]
         IN  [handles  |-> [moved EXCEPT ![r].destroyed = TRUE],
              packets  |-> [a.packets EXCEPT ![id] = NoHandle],
              size     |-> SizeAfterFree(a.size, removed),
              requests |-> Append(a.requests, removed.id)]

\* `for id in allocator.get_destroyed_handles() { allocator.free(&id); }`
RECURSIVE FreeEach(_, _)
FreeEach(a, ids) ==
    IF ids = <<>> THEN a ELSE FreeEach(FreeIn(a, Head(ids)), Tail(ids))

\* the owner's cycle: one drain and the free of every id it returned
FreeDestroyed ==
    /\ ~updating
    /\ LET d == TryIter(destroy_requests)
           a == FreeEach([handles |-> handles, packets |-> packets, size |-> size,
                          requests |-> d.rest], d.ids)
       IN  /\ handles' = a.handles
           /\ packets' = a.packets
           /\ size' = a.size
           /\ destroy_requests' = a.requests
           /\ result' = [Res("free_destroyed", TRUE) EXCEPT !.ids = d.ids, !.before = size]
    /\ UNCHANGED <<action_queue, updating, dropped, modelVars, histVars>>

\* A caller builds a static handle over a fixed region (StaticAllocHandle::new)
CreateStatic(id, offset, n) ==
    /\ Len(handles) < MaxHandles
    /\ handles' = Append(handles, NewStaticHandle(id, offset, n))
    /\ result' = [Res("static_new", TRUE) EXCEPT !.id = id, !.h = Len(handles) + 1,
                     !.offset = offset, !.size = n]
    /\ UNCHANGED <<packets, size, chanVars, modelVars, histVars>>

\* ------------------------------------------------------------ modify queue
\* AllocHandle::send_action: `action.offset += self.offset();`
AbsoluteOffset_rel(hd, rel) == rel
AbsoluteOffset(hd, rel) == rel + hd.offset

\* the ModifyAction as it travels through the channel; seq names its closure
QueuedAction(hd, rel, n, seq) ==
    [offset |-> AbsoluteOffset(hd, rel), size |-> n, seq |-> seq]

\* the region of a handle is valid: a static region is permanent, a dynamic
\* one lasts until free removes the handle from packets
IsValid(h) == handles[h].kind = "static" \/ h \in LiveHandles

\* what send_action does to the channel and to the send history
Enqueue(h, rel, n) ==
    /\ action_queue' = Append(action_queue, QueuedAction(handles[h], rel, n, Len(sent) + 1))
    /\ sent' = Append(sent, [h |-> h, rel |-> rel, size |-> n, at |-> handles[h].offset,
                             during |-> updating])

SendAction(h, rel, n) ==
    /\ Len(sent) < MaxSends
    /\ Enqueue(h, rel, n)
    /\ result' = Res("send_action", TRUE)
    /\ UNCHANGED <<allocVars, destroy_requests, updating, dropped, modelVars,
                   applied, updates, overwritten, wakes>>

\* send_action called by a sender thread holding a clone of a valid handle
ThreadSend(h, rel, n) ==
    /\ Len(sent) < MaxBurst
    /\ IsValid(h)
    /\ Enqueue(h, rel, n)
    /\ result' = [Res("send_action", TRUE) EXCEPT !.h = h]
    /\ UNCHANGED <<allocVars, destroy_requests, updating, dropped, modelVars,
                   applied, updates, overwritten, wakes>>

\* Sender::send on the unbounded mpsc channel: Err exactly when the Receiver
\* has been dropped, and then nothing is enqueued
ChannelSend_bounded(q, closed, msg) ==
    IF closed \/ Len(q) >= 1 THEN [ok |-> FALSE, q |-> q]
    ELSE [ok |-> TRUE, q |-> Append(q, msg)]
ChannelSend(q, closed, msg) ==
    IF closed THEN [ok |-> FALSE, q |-> q]
    ELSE [ok |-> TRUE, q |-> Append(q, msg)]

\* send_action with its Result: `action.offset += self.offset();` on the
\* local action, then `self.get_action_sender().send(action)`
TrySendAction(h, rel, n) ==
    /\ Len(sent) < MaxSends
    /\ LET r == ChannelSend(action_queue, dropped,
                            QueuedAction(handles[h], rel, n, Len(sent) + 1))
       IN  /\ action_queue' = r.q
           /\ sent' = IF r.ok
                      THEN Append(sent, [h |-> h, rel |-> rel, size |-> n,
                                         at |-> handles[h].offset, during |-> updating])
                      ELSE sent
           /\ result' = [Res("send_action", r.ok) EXCEPT !.h = h]
    /\ UNCHANGED <<allocVars, destroy_requests, updating, dropped, modelVars,
                   applied, updates, overwritten, wakes>>

\* the owner drops the allocator: the map lets go of its handles and the two
\* Receivers are dropped with whatever they still hold
DropAllocator ==
    /\ ~updating
    /\ ~dropped
    /\ dropped' = TRUE
    /\ packets' = [i \in Ids |-> NoHandle]
    /\ action_queue' = <<>>
    /\ destroy_requests' = <<>>
    /\ result' = Res("drop", TRUE)
    /\ UNCHANGED <<handles, size, updating, modelVars, histVars>>

\* Receiver::try_recv on the action queue
TryRecv_skip(q) ==
    IF q = <<>> THEN [ok |-> FALSE, rest |-> q]
    ELSE [ok |-> TRUE, action |-> Head(q),
          rest |-> IF Len(q) > 1 THEN Tail(Tail(q)) ELSE <<>>]
TryRecv_last(q) ==
    IF q = <<>> THEN [ok |-> FALSE, rest |-> q]
    ELSE [ok |-> TRUE, action |-> q[Len(q)], rest |-> SubSeq(q, 1, Len(q) - 1)]
TryRecv(q) ==
    IF q = <<>> THEN [ok |-> FALSE, rest |-> q]
    ELSE [ok |-> TRUE, action |-> Head(q), rest |-> Tail(q)]

\* update: `while let Ok(action) = self.action_queue.try_recv() { modify(action); }`
\* run to completion with no concurrent sender: the callback invocations, in order
RECURSIVE DrainQueue(_)
DrainQueue_first(q) ==
    IF q = <<>> THEN [calls |-> <<>>, rest |-> q]
    ELSE [calls |-> <<Head(q)>>, rest |-> Tail(q)]
DrainQueue_lifo(q) ==
    IF q = <<>> THEN [calls |-> <<>>, rest |-> q]
    ELSE [calls |-> [i \in 1..Len(q) |-> q[Len(q) + 1 - i]], rest |-> <<>>]
DrainQueue(q) ==
    LET r == TryRecv(q)
    IN  IF r.ok
        THEN LET d == DrainQueue(r.rest)
             IN  [calls |-> <<r.action>> \o d.calls, rest |-> d.rest]
        ELSE [calls |-> <<>>, rest |-> r.rest]

\* update() called by the owner thread while no other thread is sending
Update ==
    /\ ~updating
    /\ LET d == DrainQueue(action_queue)
       IN  /\ action_queue' = d.rest
           /\ applied' = applied \o d.calls
           /\ updates' = d.calls
           /\ result' = [Res("update", TRUE) EXCEPT !.size = Len(d.calls)]
    /\ UNCHANGED <<allocVars, destroy_requests, updating, dropped, modelVars,
                   sent, overwritten, wakes>>

\* update() interleaved with other threads: one try_recv per step
UpdateBegin ==
    /\ ~updating
    /\ updating' = TRUE
    /\ updates' = <<>>
    /\ result' = Res("update_begin", TRUE)
    /\ UNCHANGED <<allocVars, action_queue, destroy_requests, dropped, modelVars,
                   sent, applied, overwritten, wakes>>

UpdateRecv ==
    /\ updating
    /\ LET r == TryRecv(action_queue)
       IN  /\ r.ok
           /\ action_queue' = r.rest
           /\ applied' = Append(applied, r.action)
           /\ updates' = Append(updates, r.action)
    /\ result' = Res("update_recv", TRUE)
    /\ UNCHANGED <<allocVars, destroy_requests, updating, dropped, modelVars,
                   sent, overwritten, wakes>>

UpdateEnd ==
    /\ updating
    /\ ~TryRecv(action_queue).ok
    /\ updating' = FALSE
    /\ result' = [Res("update", TRUE) EXCEPT !.size = Len(updates)]
    /\ UNCHANGED <<allocVars, action_queue, destroy_requests, dropped, modelVars,
                   histVars>>

\* ------------------------------------------------------------ model states
\* ModelState::Dormant(SimpleGeometry) of a model whose handle type is htype
DormantState(htype) ==
    [tag |-> "Dormant", htype |-> htype, vertices |-> <<0, 1>>,
     indices |-> <<>>, handle |-> NoHandle]

\* ModelState::DormantIndexed(IndexedGeometry)
DormantIndexedState(htype) ==
    [tag |-> "DormantIndexed", htype |-> htype, vertices |-> <<0, 1>>,
     indices |-> <<0, 1, 1>>, handle |-> NoHandle]

\* ModelState::Awake(handle): the geometry is dropped, only the handle is kept
AwakeState(htype, h) ==
    [tag |-> "Awake", htype |-> htype, vertices |-> <<>>, indices |-> <<>>, handle |-> h]

\* ModelState::Destroyed
DestroyedState(htype) ==
    [tag |-> "Destroyed", htype |-> htype, vertices |-> <<>>, indices |-> <<>>,
     handle |-> NoHandle]

\* Model::wake (TreeModel Root and BaseModel alike): `*state.write() = Awake(handle)`
WokenState(old, h) == AwakeState(old.htype, h)

Wake(m, h) ==
    /\ handles[h].kind = state[m].htype
    /\ wakes[m] < MaxWakes
    /\ state' = [state EXCEPT ![m] = WokenState(state[m], h)]
    /\ wakes' = [wakes EXCEPT ![m] = @ + 1]
    /\ result' = [Res("wake", TRUE) EXCEPT !.m = m, !.h = h]
    /\ UNCHANGED <<allocVars, chanVars, transform, ctx, sub_handles, destroying,
                   translating, sent, applied, updates, overwritten>>

\* DynamicAllocHandle::destroy: the flag, then the destroy request
HandleDestroy_noflag(h) ==
    /\ handles' = handles
    /\ destroy_requests' = Append(destroy_requests, handles[h].id)
HandleDestroy(h) ==
    /\ handles' = [handles EXCEPT ![h].destroyed = TRUE]
    /\ destroy_requests' = Append(destroy_requests, handles[h].id)

\* DynamicAllocHandle::destroy called by a holder of the shared handle
HolderDestroy(h) ==
    /\ handles[h].kind = "dynamic"
    /\ Len(destroy_requests) < MaxQueue
    /\ HandleDestroy(h)
    /\ result' = [Res("handle_destroy", TRUE) EXCEPT !.h = h, !.id = handles[h].id]
    /\ UNCHANGED <<packets, size, action_queue, updating, dropped, modelVars, histVars>>

\* Model::destroy: `panic!("Static handle cannot be destroyed")` for a static
\* handle; for a dynamic one every arm of the match but Awake(handle) panics
DestroyPanics_static(st) == st.tag # "Awake"
DestroyPanics(st) == st.htype = "static" \/ st.tag # "Awake"

\* Model::destroy called with no other thread inside the model
Destroy(m) ==
    /\ IF ~DestroyPanics(state[m])
       THEN /\ Len(destroy_requests) < MaxQueue
            /\ HandleDestroy(state[m].handle)
            /\ state' = [state EXCEPT ![m] = DestroyedState(state[m].htype)]
            /\ result' = [Res("destroy", TRUE) EXCEPT !.m = m, !.h = state[m].handle]
       ELSE /\ UNCHANGED <<handles, destroy_requests, state>>
            /\ result' = [Res("destroy", FALSE) EXCEPT !.m = m]
    /\ UNCHANGED <<packets, size, action_queue, updating, dropped, transform, ctx,
                   sub_handles, destroying, translating, histVars>>

\* Model::destroy of a dynamic-handle model, thread t, first statement:
\* `match &*state.read() { Awake(handle) => handle.destroy(), _ => panic!(..) }`;
\* the read guard is dropped at the end of the match
DestroyMatch(t, m) ==
    /\ t \notin destroying[m]
    /\ state[m].htype = "dynamic"
    /\ IF ~DestroyPanics(state[m])
       THEN /\ Len(destroy_requests) < MaxQueue
            /\ HandleDestroy(state[m].handle)
            /\ destroying' = [destroying EXCEPT ![m] = @ \cup {t}]
            /\ result' = [Res("destroy_match", TRUE) EXCEPT !.m = m, !.h = state[m].handle]
       ELSE /\ UNCHANGED <<handles, destroy_requests, destroying>>
            /\ result' = [Res("destroy", FALSE) EXCEPT !.m = m]
    /\ UNCHANGED <<packets, size, action_queue, updating, dropped, state, transform, ctx,
                   sub_handles, translating, histVars>>

\* Model::destroy, thread t, second statement: `*state.write() = Destroyed`
DestroyWrite(t, m) ==
    /\ t \in destroying[m]
    /\ state' = [state EXCEPT ![m] = DestroyedState(state[m].htype)]
    /\ destroying' = [destroying EXCEPT ![m] = @ \ {t}]
    /\ result' = [Res("destroy", TRUE) EXCEPT !.m = m]
    /\ UNCHANGED <<allocVars, chanVars, transform, ctx, sub_handles, translating,
                   histVars>>

\* Translate for Transform: `self.translation += translation`
TransformTranslate_set(t, d) == d
TransformTranslate(t, d) == t + d

\* Translate for [T]: every vertex is moved
SliceTranslate_first(vs, d) == [i \in DOMAIN vs |-> IF i = 1 THEN vs[i] + d ELSE vs[i]]
SliceTranslate(vs, d) == [i \in DOMAIN vs |-> vs[i] + d]

\* TreeModel::create_node
CreateNode(offset, n, subs) ==
    [location |-> [offset |-> offset, size |-> n], ctx |-> 0, sub_handles |-> subs]

\* TranslateModel for TreeModel, Node arm: `ctx.write().translate(translation)`
\* and the same for every element of sub_handles; a Node sends nothing
RECURSIVE NodeTranslate(_, _)
NodeTranslate_shallow(node, d) == [node EXCEPT !.ctx = @ + d]
NodeTranslate(node, d) ==
    [location    |-> node.location,
     ctx         |-> node.ctx + d,
     sub_handles |-> [i \in DOMAIN node.sub_handles |->
                         NodeTranslate(node.sub_handles[i], d)]]

\* `for handle in sub_handles.iter() { handle.translate(translation); }`
SubHandlesTranslate(nodes, d) == [i \in DOMAIN nodes |-> NodeTranslate(nodes[i], d)]

\* every Node below a list of Nodes, depth first (HitboxNode::inner_nodes)
RECURSIVE Descendants(_)
Descendants(nodes) ==
    IF nodes = <<>> THEN <<>>
    ELSE <<Head(nodes)>> \o Descendants(Head(nodes).sub_handles)
                        \o Descendants(Tail(nodes))

\* translate, Awake arm: `ModifyAction::new(0, handle.size(), mod_action)`
RootAction_short(hd) == [offset |-> 0, size |-> hd.size - 1]
RootAction(hd) == [offset |-> 0, size |-> hd.size]

\* translate: the arm of `match &mut *state.write()` that a state takes
TranslateArm_noop(st) == IF st.tag = "Awake" THEN "Awake" ELSE "Dormant"
TranslateArm(st) ==
    CASE st.tag = "Awake" -> "Awake"
      [] st.tag \in {"Dormant", "DormantIndexed"} -> "Dormant"
      [] OTHER -> "panic"

\* translate, Root arm, second statement: `match &mut *state.write() { .. }`
TranslateMatch(m, d) ==
       CASE TranslateArm(state[m]) = "Awake" ->
              /\ Len(sent) < MaxSends
              /\ LET action == RootAction(handles[state[m].handle])
                 IN  Enqueue(state[m].handle, action.offset, action.size)
              /\ ctx' = [ctx EXCEPT ![m] = @ + d]
              /\ sub_handles' = [sub_handles EXCEPT ![m] = SubHandlesTranslate(@, d)]
              /\ result' = [Res("translate", TRUE) EXCEPT !.m = m]
              /\ UNCHANGED state
         [] TranslateArm(state[m]) = "Dormant" ->
              /\ state' = [state EXCEPT ![m].vertices = SliceTranslate(@, d)]
              /\ ctx' = [ctx EXCEPT ![m] = @ + d]
              /\ sub_handles' = [sub_handles EXCEPT ![m] = SubHandlesTranslate(@, d)]
              /\ result' = [Res("translate", TRUE) EXCEPT !.m = m]
              /\ UNCHANGED <<action_queue, sent>>
         [] OTHER ->
              /\ result' = [Res("translate", FALSE) EXCEPT !.m = m]
              /\ UNCHANGED <<state, ctx, sub_handles, action_queue, sent>>

\* TranslateModel for TreeModel, Root arm, called with no other thread inside
\* the model
Translate(m, d) ==
    /\ TransformTranslate(transform[m], d) \in -MaxCoord..MaxCoord
    /\ transform' = [transform EXCEPT ![m] = TransformTranslate(@, d)]
    /\ TranslateMatch(m, d)
    /\ UNCHANGED <<allocVars, destroy_requests, updating, dropped, destroying, translating,
                   applied, updates, overwritten, wakes>>

\* translate by thread t, first statement: `transform.write().translate(..);`
\* the guard on transform is dropped at the end of the statement
TranslateTransform(t, m, d) ==
    /\ \A i \in DOMAIN translating[m] : translating[m][i].t # t
    /\ TransformTranslate(transform[m], d) \in -MaxCoord..MaxCoord
    /\ transform' = [transform EXCEPT ![m] = TransformTranslate(@, d)]
    /\ translating' = [translating EXCEPT ![m] = Append(@, [t |-> t, d |-> d])]
    /\ result' = [Res("translate_transform", TRUE) EXCEPT !.m = m]
    /\ UNCHANGED <<allocVars, chanVars, state, ctx, sub_handles, destroying, histVars>>

\* translate by thread t, second statement, under the write lock of state
TranslateState(t, m) ==
    /\ \E i \in DOMAIN translating[m] :
          /\ translating[m][i].t = t
          /\ TranslateMatch(m, translating[m][i].d)
          /\ translating' = [translating EXCEPT ![m] =
                                 SubSeq(@, 1, i - 1) \o SubSeq(@, i + 1, Len(@))]
    /\ UNCHANGED <<allocVars, destroy_requests, updating, dropped, transform, destroying,
                   applied, updates, overwritten, wakes>>

\* ------------------------------------------------------- tree composition
\* Geometry::data_len: `self.vertices.len()`
DataLen(g) == Len(g.vertices)

\* Expandable for SimpleGeometry: `self.vertices.extend_from_slice(&other.vertices)`
SimpleExpand(g, other) == [g EXCEPT !.vertices = @ \o other.vertices]

\* Expandable for IndexedGeometry: the vertices are extended first, and
\* `let offset = self.vertices.len() as u32;` is read after that
IndexedExpand(g, other) ==
    LET vertices == g.vertices \o other.vertices
        offset   == Len(vertices)
        indices  == [i \in DOMAIN other.indices |-> other.indices[i] + offset]
    IN  [g EXCEPT !.vertices = vertices, !.indices = @ \o indices]

\* `geometry.expand(other_geometry)` of the two same-mode arms of add_child
Expand(g, other) ==
    IF g.tag = "DormantIndexed" THEN IndexedExpand(g, other) ELSE SimpleExpand(g, other)

\* a tree value is a Root (it has a state) or a Node (it has a location)
IsRoot(tree) == "state" \in DOMAIN tree

\* TreeModel::create_root_with_models, as a value handed to add_child
CreateRoot(st, subs, c) == [state |-> st, sub_handles |-> subs, ctx |-> c]

\* add_child, self a Root: the arm the two trees select
AddChildArm_lenient(self_st, other) ==
    IF ~IsRoot(other) THEN "push"
    ELSE IF /\ self_st.tag \in {"Dormant", "DormantIndexed"}
            /\ other.state.tag \in {"Dormant", "DormantIndexed"}
         THEN "expand"
         ELSE "panic"
AddChildArm(self_st, other) ==
    IF ~IsRoot(other) THEN "push"
    ELSE CASE self_st.tag = "Dormant" /\ other.state.tag = "Dormant" -> "expand"
           [] self_st.tag = "DormantIndexed" /\ other.state.tag = "DormantIndexed" -> "expand"
           [] OTHER -> "panic"

\* add_child, Root into Root: `let offset = geometry.data_len();` before the
\* expand and `(offset, other_geometry.data_len())`
ChildLocation_after(geometry, other_geometry) ==
    [offset |-> DataLen(geometry) + DataLen(other_geometry),
     size   |-> DataLen(other_geometry)]
ChildLocation(geometry, other_geometry) ==
    [offset |-> DataLen(geometry), size |-> DataLen(other_geometry)]

\* the contexts Hitbox::expand_hitbox of the caller's type C can leave in self
Hitboxes == {0, 1}

\* add_child called on Root m
AddChild(m, other) ==
    /\ CASE AddChildArm(state[m], other) = "expand" ->
              /\ DataLen(state[m]) + DataLen(other.state) <= MaxVerts
              /\ Len(Descendants(sub_handles[m]))
                     + Len(Descendants(other.sub_handles)) < MaxNodes
              /\ state' = [state EXCEPT ![m] = Expand(@, other.state)]
              /\ \E c \in Hitboxes : ctx' = [ctx EXCEPT ![m] = c]
              /\ LET location == ChildLocation(state[m], other.state)
                 IN  /\ sub_handles' = [sub_handles EXCEPT ![m] =
                            Append(@, [location    |-> location,
                                       ctx         |-> other.ctx,
                                       sub_handles |-> other.sub_handles])]
                     /\ result' = [Res("add_child", TRUE) EXCEPT !.m = m,
                                      !.offset = location.offset,
                                      !.size = location.size]
         [] AddChildArm(state[m], other) = "push" ->
              /\ Len(Descendants(sub_handles[m]))
                     + Len(Descendants(other.sub_handles)) < MaxNodes
              /\ \E c \in Hitboxes : ctx' = [ctx EXCEPT ![m] = c]
              /\ sub_handles' = [sub_handles EXCEPT ![m] = Append(@, other)]
              /\ result' = [Res("add_child", TRUE) EXCEPT !.m = m,
                               !.offset = other.location.offset,
                               !.size = other.location.size]
              /\ UNCHANGED state
         [] OTHER ->
              /\ result' = [Res("add_child", FALSE) EXCEPT !.m = m]
              /\ UNCHANGED <<state, ctx, sub_handles>>
    /\ UNCHANGED <<allocVars, chanVars, transform, destroying, translating, histVars>>

\* add_child, self a Node: `_ => panic!("Cannot expand a node with a root")`
NodeAddChildPanics(other) == IsRoot(other)

\* add_child, Node into Node: `other_location.offset += location.size;
\* location.size += other_location.size;` and the push
NodeExpand_noshift(node, other, c) ==
    [location    |-> [offset |-> node.location.offset,
                      size   |-> node.location.size + other.location.size],
     ctx         |-> c,
     sub_handles |-> Append(node.sub_handles, other)]
NodeExpand(node, other, c) ==
    [location    |-> [offset |-> node.location.offset,
                      size   |-> node.location.size + other.location.size],
     ctx         |-> c,
     sub_handles |-> Append(node.sub_handles,
                            [other EXCEPT !.location.offset = @ + node.location.size])]

\* add_child called on the i-th Node of Root m's sub_handles
NodeAddChild(m, i, other) ==
    /\ i \in DOMAIN sub_handles[m]
    /\ IF NodeAddChildPanics(other)
       THEN /\ result' = [Res("node_add_child", FALSE) EXCEPT !.m = m]
            /\ UNCHANGED sub_handles
       ELSE /\ Len(Descendants(sub_handles[m]))
                   + Len(Descendants(other.sub_handles)) < MaxNodes
            /\ \E c \in Hitboxes :
                  sub_handles' = [sub_handles EXCEPT ![m][i] = NodeExpand(@, other, c)]
            /\ result' = [Res("node_add_child", TRUE) EXCEPT !.m = m]
    /\ UNCHANGED <<allocVars, chanVars, state, transform, ctx, destroying,
                   translating, histVars>>

\* Model for TreeModel: the `Self::Node { .. } => panic!(..)` arm of wake,
\* state, destroy and is_destroyed
NodeMethods == {"wake", "state", "destroy", "is_destroyed"}
NodePanics_never(tree) == FALSE
NodePanics(tree) == ~IsRoot(tree)

\* one of the Model methods called on the i-th Node of Root m's sub_handles
NodeMethod(m, i, method) ==
    /\ i \in DOMAIN sub_handles[m]
    /\ result' = [Res(method, ~NodePanics(sub_handles[m][i])) EXCEPT !.m = m, !.id = "node"]
    /\ UNCHANGED <<allocVars, chanVars, modelVars, histVars>>

\* BufferDynamicAllocator::default, no call made yet
InitAllocator ==
    /\ handles = <<>>
    /\ packets = [i \in Ids |-> NoHandle]
    /\ size = 0
    /\ action_queue = <<>>
    /\ destroy_requests = <<>>
    /\ updating = FALSE
    /\ dropped = FALSE
    /\ sent = <<>>
    /\ applied = <<>>
    /\ updates = <<>>
    /\ overwritten = FALSE
    /\ result = NoResult

\* TreeModel::create_root / BaseModel::simple / BaseModel::indexed
InitModels(kinds) ==
    /\ state \in [Models -> kinds]
    /\ transform = [m \in Models |-> 0]
    /\ ctx = [m \in Models |-> 0]
    /\ wakes = [m \in Models |-> 0]
    /\ destroying = [m \in Models |-> {}]
    /\ translating = [m \in Models |-> <<>>]

\* the Vec of Nodes a Root is created with: `sub_handles: Vec::new()` in
\* create_root, the caller's Vec in create_root_with_models
InitSubHandles(trees) == sub_handles \in [Models -> trees]

Init ==
    /\ InitAllocator
    /\ InitModels({DormantState("dynamic")})
    /\ InitSubHandles({<<>>})

\* The allocator's owner thread alone: allocate / free / drain of destroy requests
Next ==
    \/ \E id \in Ids, n \in Sizes : Allocate(id, n)
    \/ \E id \in Ids : Free(id)
    \/ GetDestroyedHandles

Spec == Init /\ [][Next]_vars

\* Handles used to send actions, the owner calling update() between the sends
NextQueue ==
    \/ \E id \in QueueIds, n \in QueueSizes :
           Cardinality(DynamicHandles) < Cardinality(QueueIds) /\ Allocate(id, n)
    \/ \E id \in QueueIds : Free(id)
    \/ \E o \in QueueSizes :
           StaticHandles = {} /\ CreateStatic("static", o, 1)
    \/ \E h \in DOMAIN handles, a \in ActShapes : SendAction(h, a[1], a[2])
    \/ Update

SpecQueue == Init /\ [][NextQueue]_vars

\* Sender threads running concurrently with the owner thread's update() loop
NextConc ==
    \/ \E id \in QueueIds, n \in QueueSizes :
           Cardinality(DynamicHandles) < Cardinality(QueueIds) /\ Allocate(id, n)
    \/ \E id \in QueueIds : Free(id)
    \/ \E h \in DOMAIN handles, a \in ActShapes : SendAction(h, a[1], a[2])
    \/ UpdateBegin
    \/ UpdateRecv
    \/ UpdateEnd

SpecConc == Init /\ [][NextConc]_vars

\* Models created over either geometry kind and either handle type, then woken,
\* transformed and destroyed while the owner allocates and updates
InitModel ==
    /\ InitAllocator
    /\ InitModels({DormantState("dynamic"), DormantIndexedState("dynamic"),
                   DormantState("static")})
    /\ InitSubHandles({<<>>})

NextModel ==
    \/ \E id \in QueueIds, n \in QueueSizes :
           Cardinality(DynamicHandles) < Cardinality(QueueIds) /\ Allocate(id, n)
    \/ \E o \in QueueSizes :
           StaticHandles = {} /\ CreateStatic("static", o, 1)
    \/ \E m \in Models, h \in DOMAIN handles : Wake(m, h)
    \/ \E m \in Models : Destroy(m)
    \/ \E m \in Models, d \in Deltas : Translate(m, d)
    \/ Update

SpecModel == InitModel /\ [][NextModel]_vars

\* The Node lists a Root is created with (create_root_with_models): none, one
\* Node, two sibling Nodes, a Node holding a Node
Trees ==
    {<<>>,
     <<CreateNode(0, 1, <<>>)>>,
     <<CreateNode(0, 1, <<>>), CreateNode(MaxRel, 1, <<>>)>>,
     <<CreateNode(0, MaxSize, <<CreateNode(MaxRel, 1, <<>>)>>)>>}

\* A dynamic-handle Root with Nodes, woken and translated while the owner
\* allocates and updates
InitTree ==
    /\ InitAllocator
    /\ InitModels({DormantState("dynamic")})
    /\ InitSubHandles(Trees)

NextTree ==
    \/ \E id \in QueueIds, n \in QueueSizes :
           Cardinality(DynamicHandles) < Cardinality(QueueIds) /\ Allocate(id, n)
    \/ \E m \in Models, h \in DOMAIN handles : Wake(m, h)
    \/ \E m \in Models, d \in Deltas : Translate(m, d)
    \/ Update

SpecTree == InitTree /\ [][NextTree]_vars

\* Callers that keep to the contract: allocate only an id that is not live and
\* send only through a handle whose region is valid
NextValid ==
    \/ \E id \in QueueIds, n \in QueueSizes :
           packets[id] = NoHandle /\ Allocate(id, n)
    \/ \E id \in QueueIds : Free(id)
    \/ \E h \in DOMAIN handles, a \in ActShapes :
           IsValid(h) /\ SendAction(h, a[1], a[2])
    \/ Update

SpecValid == Init /\ [][NextValid]_vars

\* Threads sharing one dynamic-handle model: it is woken once, from Dormant,
\* and then translated and destroyed from several threads at once
InitRace ==
    /\ InitAllocator
    /\ InitModels({DormantState("dynamic"), DormantIndexedState("dynamic")})
    /\ InitSubHandles({<<>>})

NextRace ==
    \/ \E id \in QueueIds, n \in QueueSizes :
           packets[id] = NoHandle /\ Allocate(id, n)
    \/ \E m \in Models, h \in DOMAIN handles :
           state[m].tag \in {"Dormant", "DormantIndexed"} /\ Wake(m, h)
    \/ \E t \in Threads, m \in Models : DestroyMatch(t, m)
    \/ \E t \in Threads, m \in Models : DestroyWrite(t, m)
    \/ \E m \in Models, d \in Deltas : Translate(m, d)

SpecRace == InitRace /\ [][NextRace]_vars

\* Threads translating one Awake Root at once, the owner updating in between
NextOrder ==
    \/ \E id \in QueueIds, n \in QueueSizes :
           packets[id] = NoHandle /\ Allocate(id, n)
    \/ \E m \in Models, h \in DOMAIN handles :
           state[m].tag \in {"Dormant", "DormantIndexed"} /\ Wake(m, h)
    \/ \E t \in Threads, m \in Models, d \in Deltas : TranslateTransform(t, m, d)
    \/ \E t \in Threads, m \in Models : TranslateState(t, m)
    \/ Update

SpecOrder == InitRace /\ [][NextOrder]_vars

\* ------------------------------------------------------------------ claims
\* C1: with ids unique among the live allocations, the regions of the
\* registered handles are pairwise disjoint and their sizes add up to size().
C1_DisjointAndSum ==
    ~overwritten =>
        /\ \A a \in LiveHandles, b \in LiveHandles :
              a # b => Region(handles[a]) \cap Region(handles[b]) = {}
        /\ SumSizes(LiveHandles) = size

\* a free compacted one non-empty region next to another that stayed
C1_Witness ==
    /\ ~overwritten
    /\ result.op = "free" /\ result.ok /\ result.size > 0
    /\ \E a \in LiveHandles, b \in LiveHandles :
          /\ handles[a].size > 0 /\ handles[b].size > 0
          /\ handles[a].offset < result.offset
          /\ handles[b].offset = result.offset

\* C2: free(id) of a live region at offset o, size s moves every remaining
\* region that was above o down by exactly s and leaves the offsets below o
\* and every remaining size as they were; the shared handles show it.
C2_FreeCompacts ==
    [][\A id \in Ids :
          (packets[id] # NoHandle /\ Free(id)) =>
             LET r == packets[id]
                 o == handles[r].offset
                 s == handles[r].size
             IN  \A i \in LiveHandles \ {r} :
                    /\ handles[i].offset > o => handles'[i].offset = handles[i].offset - s
                    /\ handles[i].offset < o => handles'[i].offset = handles[i].offset
                    /\ handles'[i].size = handles[i].size]_vars

\* mesh1 then mesh2 allocated, mesh1 freed: mesh2 reports offset 0 and its size
C2_Witness ==
    /\ result.op = "free" /\ result.ok /\ result.id = "mesh1"
    /\ result.offset = 0 /\ result.size = MaxSize
    /\ packets["mesh2"] # NoHandle
    /\ handles[packets["mesh2"]].offset = 0
    /\ handles[packets["mesh2"]].size = 1
    /\ size = 1

\* C3: every live handle ends inside [0, size()) and the live regions
\* cover [0, size()) without a gap.
C3_WithinAndContiguous ==
    /\ \A h \in LiveHandles : handles[h].offset + handles[h].size <= size
    /\ UNION {Region(handles[h]) : h \in LiveHandles} = {e \in 0..size : e < size}

\* C4: allocate(id, n) hands out [size(), size() + n), grows size() by n,
\* touches no existing handle and registers the new handle under id.
C4_AllocateAppends ==
    [][\A id \in Ids, n \in Sizes :
          Allocate(id, n) =>
             LET h == result'.h
             IN  /\ h \notin DOMAIN handles
                 /\ handles'[h].offset = size
                 /\ handles'[h].size = n
                 /\ size' = size + n
                 /\ \A i \in DOMAIN handles : handles'[i] = handles[i]
                 /\ packets'[id] = h]_vars

\* an allocate behind an existing non-empty region
C4_Witness ==
    /\ result.op = "allocate" /\ result.offset > 0 /\ result.size > 0
    /\ Get(result.id) = result.h
    /\ Cardinality(LiveHandles) >= 2

\* C5: allocate(id, n) directly followed by free(id) restores size().
C5_AllocateFreeRestores ==
    [][\A id \in Ids :
          (result.op = "allocate" /\ result.id = id /\ Free(id)) =>
             size' = result.before]_vars

\* a non-empty region freed by the call right after the one that allocated it
C5_Witness ==
    /\ result.op = "free" /\ result.ok /\ result.chained
    /\ result.size > 0
    /\ size > 0

\* C6: update's callback sees every action at the sending handle's offset at
\* send time plus the relative offset, with the size it was sent with.
C6_AbsoluteOffset ==
    \A i \in DOMAIN applied :
       LET a == applied[i]
           s == sent[a.seq]
       IN  /\ a.offset = s.at + s.rel
           /\ a.size = s.size

\* delivered: one action through a dynamic handle that sat above offset 0 and
\* one through a static handle, both with a non-zero relative offset
C6_Witness ==
    /\ \E i \in DOMAIN applied :
          LET s == sent[applied[i].seq]
          IN  handles[s.h].kind = "dynamic" /\ s.at > 0 /\ s.rel > 0
    /\ \E i \in DOMAIN applied :
          LET s == sent[applied[i].seq]
          IN  handles[s.h].kind = "static" /\ s.at > 0 /\ s.rel > 0

\* C7: one update() invokes the callback once per action sent since the
\* previous update, in send order; with nothing sent it invokes it zero times.
C7_UpdateDrainsInOrder ==
    [][Update =>
          /\ Len(updates') = Len(sent) - Len(applied)
          /\ \A k \in DOMAIN updates' : updates'[k].seq = Len(applied) + k]_vars

\* an update that delivered two actions sent through the same handle
C7_Witness ==
    /\ result.op = "update"
    /\ Len(updates) = 2
    /\ sent[updates[1].seq].h = sent[updates[2].seq].h
    /\ updates[1].seq < updates[2].seq

\* C8: with sends interleaved with the steps of update(), every sent action
\* is either still queued or was passed to the callback, and never both nor
\* twice.
C8_ExactlyOnce ==
    /\ \A i \in DOMAIN applied, j \in DOMAIN applied :
          i # j => applied[i].seq # applied[j].seq
    /\ \A k \in DOMAIN sent :
          LET delivered == \E i \in DOMAIN applied : applied[i].seq = k
              queued    == \E i \in DOMAIN action_queue : action_queue[i].seq = k
          IN  delivered # queued
    /\ \A i \in DOMAIN applied : applied[i].seq \in DOMAIN sent

\* an action sent while update() was draining has been delivered
C8_Witness ==
    /\ ~updating
    /\ Len(applied) = MaxSends
    /\ \E i \in DOMAIN applied : sent[applied[i].seq].during
\* order of the lifecycle: Dormant / DormantIndexed, then Awake, then Destroyed
Rank(tag) ==
    CASE tag \in {"Dormant", "DormantIndexed"} -> 0
      [] tag = "Awake" -> 1
      [] tag = "Destroyed" -> 2

\* C9: wake on a model that is already Awake or is Destroyed panics and
\* leaves the model's state as it was; wake succeeds only from Dormant or
\* DormantIndexed.
C9_WakeOnlyFromDormant ==
    [][\A m \in Models, h \in DOMAIN handles :
          (state[m].tag \in {"Awake", "Destroyed"} /\ Wake(m, h)) =>
             (~result'.ok /\ state'[m] = state[m])]_vars

\* C10: a model's state only moves forward along Dormant / DormantIndexed ->
\* Awake -> Destroyed: it becomes Awake at most once, never returns to
\* Dormant and, once Destroyed, never holds a handle again.
C10_StateMovesForward ==
    [][\A m \in Models :
          /\ Rank(state'[m].tag) >= Rank(state[m].tag)
          /\ state[m].tag = "Destroyed" => state'[m].tag = "Destroyed"
          /\ (state[m].tag # "Awake" /\ state'[m].tag = "Awake") => wakes[m] = 0]_vars

\* C11: destroy on a Dormant, DormantIndexed or Destroyed model panics, and on
\* a static-handle model it panics in every state; a panicking destroy sends
\* no destroy request and leaves the model's state as it was.
C11_DestroyFails ==
    [][\A m \in Models :
          (/\ Destroy(m)
           /\ \/ state[m].htype = "static"
              \/ state[m].tag \in {"Dormant", "DormantIndexed", "Destroyed"}) =>
             /\ ~result'.ok
             /\ destroy_requests' = destroy_requests
             /\ state'[m] = state[m]]_vars

\* destroy has just panicked on a static-handle model that is Awake
C11_Witness ==
    \E m \in Models :
       /\ result.op = "destroy" /\ ~result.ok /\ result.m = m
       /\ state[m].htype = "static" /\ state[m].tag = "Awake"
       /\ destroy_requests = <<>>

\* C12: destroy on an Awake dynamic-handle model sets the handle's destroyed
\* flag, sends exactly one destroy request carrying the handle's id and sets
\* the state to Destroyed; it removes nothing from the allocator: get(id) for
\* every id, size() and every handle's offset and size stay as they were.
C12_DestroyMarksOnly ==
    [][\A m \in Models :
          (Destroy(m) /\ state[m].htype = "dynamic" /\ state[m].tag = "Awake") =>
             LET h == state[m].handle
             IN  /\ result'.ok
                 /\ handles'[h].destroyed
                 /\ destroy_requests' = Append(destroy_requests, handles[h].id)
                 /\ state'[m].tag = "Destroyed"
                 /\ \A id \in Ids : packets'[id] = Get(id)
                 /\ size' = size
                 /\ \A i \in DOMAIN handles :
                       Allocation(handles'[i]) = Allocation(handles[i])]_vars

\* destroy has just succeeded on a model woken with the second of two
\* allocations: the allocator still returns the handle, at its offset
C12_Witness ==
    \E m \in Models :
       /\ result.op = "destroy" /\ result.ok /\ result.m = m
       /\ state[m].tag = "Destroyed"
       /\ handles[result.h].destroyed
       /\ Get(handles[result.h].id) = result.h
       /\ handles[result.h].offset > 0
       /\ size = handles[result.h].offset + handles[result.h].size
       /\ destroy_requests = <<handles[result.h].id>>

\* C13: translate on a model whose state is Destroyed panics and enqueues no
\* ModifyAction; the caller sees the failure.
C13_TranslateDeadPanics ==
    [][\A m \in Models, d \in Deltas :
          (Translate(m, d) /\ state[m].tag = "Destroyed") =>
             /\ ~result'.ok
             /\ action_queue' = action_queue
             /\ sent' = sent]_vars

\* translate has just panicked on a Destroyed model while the action of an
\* earlier translate is still queued alone
C13_Witness ==
    \E m \in Models :
       /\ result.op = "translate" /\ ~result.ok /\ result.m = m
       /\ state[m].tag = "Destroyed"
       /\ Len(action_queue) = 1 /\ Len(sent) = 1

\* C14: a translate on an Awake Root sends through the Root's handle exactly
\* one ModifyAction, with relative offset 0 and the size handle.size() has at
\* the call: it is queued at the handle's offset, covering the whole region.
C14_RootSendsOne ==
    [][\A m \in Models, d \in Deltas :
          (Translate(m, d) /\ state[m].tag = "Awake") =>
             LET h == state[m].handle
                 k == Len(sent) + 1
                 q == Len(action_queue) + 1
             IN  /\ result'.ok
                 /\ Len(sent') = k
                 /\ sent'[k].h = h /\ sent'[k].rel = 0 /\ sent'[k].size = handles[h].size
                 /\ Len(action_queue') = q
                 /\ action_queue'[q].offset = handles[h].offset
                 /\ action_queue'[q].size = handles[h].size
                 /\ action_queue'[q].seq = k]_vars

\* a Root holding Nodes, woken with the second allocation, has been translated
\* once: one action for [offset, offset + size) is queued
C14_Witness ==
    \E m \in Models :
       /\ result.op = "translate" /\ result.ok /\ result.m = m
       /\ state[m].tag = "Awake"
       /\ sub_handles[m] # <<>>
       /\ handles[state[m].handle].offset > 0
       /\ Len(sent) = 1 /\ sent[1].rel = 0 /\ sent[1].size = MaxSize
       /\ action_queue = <<[offset |-> handles[state[m].handle].offset,
                            size |-> MaxSize, seq |-> 1]>>

\* C15: the cached Transform of a Root starts at zero and is moved by the
\* delta in the very step of every translate call on a Dormant, DormantIndexed
\* or Awake Root; no other operation, update included, changes it. So
\* transform() is the sum of the deltas whether or not update has run.
C15_TransformSynchronous ==
    /\ \A m \in Models : transform[m] = 0
    /\ [][\A m \in Models :
             /\ \A d \in Deltas :
                   (Translate(m, d) /\ state[m].tag # "Destroyed") =>
                      transform'[m] = transform[m] + d
             /\ (\A d \in Deltas : ~Translate(m, d)) =>
                      transform'[m] = transform[m]]_vars

\* translated while Dormant, woken once, translated twice while Awake: the
\* Transform shows the three deltas while both actions are still queued
C15_Witness ==
    \E m \in Models :
       /\ result.op = "translate" /\ result.ok /\ result.m = m
       /\ state[m].tag = "Awake" /\ wakes[m] = 1
       /\ Len(sent) = 2 /\ Len(action_queue) = 2 /\ applied = <<>>
       /\ transform[m] = 1 /\ ctx[m] = 1

C17_OnlyUpdateApplies ==
    [][/\ \A m \in Models, d \in Deltas :
             Translate(m, d) =>
                /\ applied' = applied
                /\ state[m].tag = "Awake" => Len(action_queue') = Len(action_queue) + 1
       /\ applied' # applied => Update
       /\ Update => (applied' = applied \o action_queue /\ action_queue' = <<>>)]_vars

\* an Awake Root was translated, updated and translated again: the first
\* action has been applied, the second waits for the next update
C17_Witness ==
    \E m \in Models :
       /\ result.op = "translate" /\ result.ok /\ result.m = m
       /\ state[m].tag = "Awake"
       /\ Len(sent) = 2 /\ Len(applied) = 1 /\ applied[1].seq = 1
       /\ Len(action_queue) = 1 /\ action_queue[1].seq = 2

\* C18: update passes no action to the callback twice, and none that was sent
\* through a handle whose allocation has been freed since the send.
C18_AppliedWhileValid ==
    [][Update =>
          /\ \A i \in DOMAIN applied', j \in DOMAIN applied' :
                i # j => applied'[i].seq # applied'[j].seq
          /\ \A k \in DOMAIN updates' : IsValid(sent[updates'[k].seq].h)]_vars

\* C19: with translate and destroy called on one model from several threads,
\* no translate sends an action through a handle whose destroyed flag is set.
C19_NoSendAfterDestroy ==
    [][\A m \in Models, d \in Deltas :
          (Translate(m, d) /\ Len(sent') > Len(sent)) =>
             ~handles[sent'[Len(sent')].h].destroyed]_vars

\* C20: with destroy called on one Awake model from two threads, at most one
\* call gets past the state check and one destroy request is sent.
C20_DestroyedOnce ==
    \A m \in Models :
       /\ Cardinality(destroying[m]) <= 1
       /\ Len(destroy_requests) <= 1

\* Sender threads holding handles of two allocations send while the owner
\* thread runs update() any number of times
NextFifo ==
    \/ \E id \in QueueIds, n \in QueueSizes :
           packets[id] = NoHandle /\ Allocate(id, n)
    \/ \E h \in DOMAIN handles : ThreadSend(h, 0, 1)
    \/ UpdateBegin
    \/ UpdateRecv
    \/ UpdateEnd

SpecFifo == Init /\ [][NextFifo]_vars

\* Holders destroying their handles while the owner drains the requests and
\* frees the ids
NextDrain ==
    \/ \E id \in QueueIds, n \in QueueSizes :
           packets[id] = NoHandle /\ Allocate(id, n)
    \/ \E h \in DOMAIN handles : HolderDestroy(h)
    \/ GetDestroyedHandles
    \/ \E id \in QueueIds : Free(id)

SpecDrain == Init /\ [][NextDrain]_vars

\* The sequence of calls of lib.rs's test, on an allocator that other ids have
\* been allocated on and freed from, with no destroy request left pending:
\* allocate, wake, translate, update, destroy, get_destroyed_handles and free
\* of every id returned
TestId   == "mesh1"
OtherIds == Ids \ {TestId}
TestStarted == \E h \in DOMAIN handles : handles[h].id = TestId

NextTest ==
    \/ \E id \in OtherIds, n \in QueueSizes :
           ~TestStarted /\ packets[id] = NoHandle /\ Allocate(id, n)
    \/ \E id \in OtherIds : ~TestStarted /\ packets[id] # NoHandle /\ Free(id)
    \/ ~TestStarted /\ destroy_requests # <<>> /\ GetDestroyedHandles
    \/ \E n \in Sizes :
           ~TestStarted /\ destroy_requests = <<>> /\ Allocate(TestId, n)
    \/ \E m \in Models :
           result.op = "allocate" /\ result.id = TestId /\ Wake(m, result.h)
    \/ \E m \in Models, d \in Deltas : result.op = "wake" /\ Translate(m, d)
    \/ result.op = "translate" /\ Update
    \/ \E m \in Models : result.op = "update" /\ Destroy(m)
    \/ result.op = "destroy" /\ GetDestroyedHandles
    \/ /\ TestStarted /\ result.op = "get_destroyed_handles"
       /\ Len(result.ids) = 1
       /\ Free(result.ids[1])

SpecTest == InitRace /\ [][NextTest]_vars

\* The trees a caller hands to add_child: Roots of either mode with one or two
\* vertices, with or without a Node, a Root that is Awake or Destroyed, and
\* Nodes over sub-ranges of the first two vertices
OtherRoots ==
    {CreateRoot([DormantState("dynamic") EXCEPT !.vertices = <<0>>], <<>>, 1),
     CreateRoot(DormantState("dynamic"), <<CreateNode(MaxRel, 1, <<>>)>>, 1),
     CreateRoot(DormantIndexedState("dynamic"), <<>>, 1),
     CreateRoot(DormantIndexedState("dynamic"), <<CreateNode(0, 1, <<>>)>>, 1),
     CreateRoot(DestroyedState("dynamic"), <<>>, 1)}
     \cup {CreateRoot(AwakeState("dynamic", h), <<>>, 1) : h \in DOMAIN handles}

OtherNodes ==
    {CreateNode(0, 1, <<>>), CreateNode(MaxRel, 1, <<>>), CreateNode(0, MaxSize, <<>>)}

\* A Root that trees are merged into before it is woken with an allocation of
\* its vertex count, and destroyed
NextCompose ==
    \/ \E m \in Models :
           /\ state[m].tag \in {"Dormant", "DormantIndexed"}
           /\ packets[TestId] = NoHandle
           /\ Allocate(TestId, DataLen(state[m]))
    \/ \E m \in Models, h \in DOMAIN handles :
           /\ state[m].tag \in {"Dormant", "DormantIndexed"}
           /\ handles[h].size = DataLen(state[m])
           /\ Wake(m, h)
    \/ \E m \in Models : Destroy(m)
    \/ \E m \in Models, other \in OtherRoots \cup OtherNodes : AddChild(m, other)
    \/ \E m \in Models, i \in 1..MaxNodes, other \in OtherRoots \cup OtherNodes :
           NodeAddChild(m, i, other)
    \/ \E m \in Models, i \in 1..MaxNodes, method \in NodeMethods :
           NodeMethod(m, i, method)

SpecCompose == InitRace /\ [][NextCompose]_vars

\* Holders that keep sending through their handles while the owner updates
\* and, at some point, drops the allocator
NextDrop ==
    \/ \E id \in QueueIds, n \in QueueSizes :
           ~dropped /\ packets[id] = NoHandle /\ Allocate(id, n)
    \/ \E h \in DOMAIN handles, a \in ActShapes : TrySendAction(h, a[1], a[2])
    \/ ~dropped /\ Update
    \/ DropAllocator

SpecDrop == Init /\ [][NextDrop]_vars

\* Holders destroy their handles, each at most once and only while it is
\* registered; the owner allocates ids that are not live and runs its cycle
NextCycle ==
    \/ \E id \in QueueIds, n \in QueueSizes :
           packets[id] = NoHandle /\ Allocate(id, n)
    \/ \E h \in LiveHandles : ~handles[h].destroyed /\ HolderDestroy(h)
    \/ FreeDestroyed

SpecCycle == Init /\ [][NextCycle]_vars

\* The owner keeps running its cycle (weak fairness) while holders destroy
\* handles and the application allocates again, for any number of rounds
NextQuiesce ==
    \/ \E id \in QueueIds, n \in QueueSizes :
           packets[id] = NoHandle /\ Allocate(id, n)
    \/ \E id \in QueueIds, n \in QueueSizes, h \in DOMAIN handles :
           packets[id] = NoHandle /\ AllocateReuse(id, n, h)
    \/ \E h \in LiveHandles : ~handles[h].destroyed /\ HolderDestroy(h)
    \/ FreeDestroyed

SpecQuiesce == Init /\ [][NextQuiesce]_vars /\ WF_vars(FreeDestroyed)

\* C21: with several threads translating one Awake Root, the calls enqueue
\* their ModifyActions in the order in which they composed their deltas into
\* the cached Transform: the call that sends is the oldest one in flight.
C21_SameOrder ==
    [][\A t \in Threads, m \in Models :
          (TranslateState(t, m) /\ state[m].tag = "Awake") =>
             translating[m][1].t = t]_vars
\* C22: two actions sent through the same handle reach update's callback in the
\* order they were sent, and the later one is never applied while the earlier
\* one is still waiting, whatever other handles send in between and however
\* many update calls it takes.
C22_SameHandleFifo ==
    /\ \A i, j \in DOMAIN applied :
          (i < j /\ sent[applied[i].seq].h = sent[applied[j].seq].h)
             => applied[i].seq < applied[j].seq
    /\ \A j \in DOMAIN applied : \A s \in 1..(applied[j].seq - 1) :
          sent[s].h = sent[applied[j].seq].h
             => \E i \in 1..(j - 1) : applied[i].seq = s

\* two sends through one handle with a send through another handle between
\* them, all applied, the last one by a later update call than the first
C22_Witness ==
    /\ Len(sent) = 3
    /\ sent[1].h = sent[3].h
    /\ sent[2].h # sent[1].h
    /\ Len(applied) = 3
    /\ applied[1].seq = 1
    /\ applied[3].seq = 3
    /\ updates = <<applied[3]>>
    /\ ~updating
\* C23: between two drains the pending destroy requests only grow, by the id
\* of the handle that raised the request, at the end; get_destroyed_handles
\* returns all of them in that order and leaves none pending, so that a drain
\* directly after a drain returns the empty list.
C23_DrainReturnsAll ==
    [][/\ result'.op # "get_destroyed_handles" =>
            \/ destroy_requests' = destroy_requests
            \/ \E h \in DOMAIN handles :
                  /\ handles'[h].destroyed
                  /\ destroy_requests' = Append(destroy_requests, handles[h].id)
       /\ result'.op = "get_destroyed_handles" =>
            /\ result'.ids = destroy_requests
            /\ destroy_requests' = <<>>
       /\ (result.op = "get_destroyed_handles" /\ result'.op = "get_destroyed_handles")
            => result'.ids = <<>>]_vars

\* two holders destroyed their handles, mesh2's first; the drain returned both
\* ids in that order and nothing is pending
C23_Witness ==
    /\ result.op = "get_destroyed_handles"
    /\ result.ids = <<"mesh2", "mesh1">>
    /\ destroy_requests = <<>>
    /\ Len(handles) = 2
    /\ \A h \in DOMAIN handles : handles[h].destroyed /\ h \in LiveHandles
\* C24: free of an id that is not registered returns None and leaves the
\* allocator as it was: size, every handle's offset and size, the registered
\* ids and both queues; get of that id still returns None.
C24_FreeAbsent ==
    [][\A id \in Ids :
          (packets[id] = NoHandle /\ result'.op = "free" /\ result'.id = id) =>
             /\ ~result'.ok
             /\ UNCHANGED <<handles, packets, size, action_queue, destroy_requests>>
             /\ Get(id)' = NoHandle]_vars

\* mesh1 was allocated, used and freed, and is freed again while mesh2 is live
\* and both queues hold messages
C24_Witness ==
    /\ result.op = "free" /\ ~result.ok /\ result.id = "mesh1"
    /\ \E h \in DOMAIN handles : handles[h].id = "mesh1" /\ handles[h].destroyed
    /\ packets["mesh2"] # NoHandle
    /\ action_queue # <<>>
    /\ destroy_requests # <<>>
\* C25: when the test's allocate of n elements found the allocator with size B
\* then after wake, translate, update, destroy, the drain and the free of the
\* drained id, size is B again and update's callback has run exactly once, on
\* the n elements starting at the handle's offset (the allocation free returns).
C25_Lifecycle ==
    \A B \in 0..(MaxHandles * MaxSize), n \in Sizes :
       []((result.op = "allocate" /\ result.id = TestId
              /\ result.before = B /\ result.size = n)
          => []((TestStarted /\ result.op = "free" /\ result.id = TestId) =>
                   /\ result.ok
                   /\ size = B
                   /\ Len(applied) = 1
                   /\ applied[1].offset = result.offset
                   /\ applied[1].size = n
                   /\ result.size = n))

\* the whole sequence has run for a Root woken behind another live allocation
C25_Witness ==
    /\ TestStarted /\ result.op = "free" /\ result.id = TestId /\ result.ok
    /\ result.size = MaxSize /\ result.offset > 0
    /\ size = result.offset
    /\ state["root"].tag = "Destroyed"
    /\ Len(applied) = 1
\* C26: add_child of an Indexed Root with b vertices into an Indexed Root with
\* a vertices leaves a + b vertices, keeps the a-vertex geometry's indices and
\* appends every index of the other geometry shifted by a.
C26_IndexShiftedByA ==
    [][\A m \in Models, other \in OtherRoots :
          (/\ state[m].tag = "DormantIndexed"
           /\ other.state.tag = "DormantIndexed"
           /\ AddChild(m, other)) =>
             LET a == DataLen(state[m])
                 b == DataLen(other.state)
                 k == Len(state[m].indices)
             IN  /\ DataLen(state'[m]) = a + b
                 /\ SubSeq(state'[m].indices, 1, k) = state[m].indices
                 /\ SubSeq(state'[m].indices, k + 1, Len(state'[m].indices))
                       = [i \in DOMAIN other.state.indices |->
                              other.state.indices[i] + a]]_vars

\* C27: add_child of a Dormant Root with b vertices into a Dormant Root of the
\* same mode with a vertices leaves a + b vertices in the parent and appends
\* one Node with offset a and size b that holds the other Root's sub_handles
\* and ctx; the Nodes the parent had stay as they were.
C27_RootIntoRoot ==
    [][\A m \in Models, other \in OtherRoots :
          (/\ state[m].tag \in {"Dormant", "DormantIndexed"}
           /\ other.state.tag = state[m].tag
           /\ AddChild(m, other)) =>
             LET a == Len(state[m].vertices)
                 b == Len(other.state.vertices)
             IN  /\ result'.ok
                 /\ Len(state'[m].vertices) = a + b
                 /\ SubSeq(state'[m].vertices, 1, a) = state[m].vertices
                 /\ SubSeq(state'[m].vertices, a + 1, a + b) = other.state.vertices
                 /\ sub_handles'[m] =
                       Append(sub_handles[m],
                              [location    |-> [offset |-> a, size |-> b],
                               ctx         |-> other.ctx,
                               sub_handles |-> other.sub_handles])]_vars

\* a Root that already holds 3 vertices and a Node has taken a Root with one
\* vertex and a Root with a Node of its own
C27_Witness ==
    /\ result.op = "add_child" /\ result.ok
    /\ state["root"].tag = "Dormant"
    /\ Len(state["root"].vertices) = MaxVerts
    /\ Len(sub_handles["root"]) = 2
    /\ sub_handles["root"][1].location = [offset |-> 2, size |-> 1]
    /\ sub_handles["root"][2].location = [offset |-> 3, size |-> 1]
\* C28: add_child of a Root into a Root panics when one is Dormant and the
\* other DormantIndexed and when either of them is Awake or Destroyed, and the
\* parent's state (its geometry) and its sub_handles are then as before.
C28_AddChildPanics ==
    [][\A m \in Models, other \in OtherRoots :
          (/\ AddChild(m, other)
           /\ \/ {state[m].tag, other.state.tag} = {"Dormant", "DormantIndexed"}
              \/ state[m].tag \in {"Awake", "Destroyed"}
              \/ other.state.tag \in {"Awake", "Destroyed"}) =>
             /\ ~result'.ok
             /\ UNCHANGED <<state, sub_handles>>]_vars

\* a Root that took a one-vertex Root while Dormant and was then woken has
\* refused a further Root
C28_Witness ==
    /\ result.op = "add_child" /\ ~result.ok
    /\ state["root"].tag = "Awake"
    /\ handles[state["root"].handle].size = 3
    /\ Len(sub_handles["root"]) = 1
\* the vertices a Root's region holds: its geometry's while it is Dormant, its
\* handle's size while it is Awake
RootCount(st) ==
    IF st.tag = "Awake" THEN handles[st.handle].size ELSE DataLen(st)

\* C29: every Node below a Root that is Dormant or Awake lies inside the
\* Root's region: offset + size is at most the Root's vertex count.
C29_NodesInsideRoot ==
    \A m \in Models :
       state[m].tag # "Destroyed" =>
          \A i \in DOMAIN Descendants(sub_handles[m]) :
             LET location == Descendants(sub_handles[m])[i].location
             IN  location.offset + location.size <= RootCount(state[m])

\* C30: wake, state, destroy and is_destroyed called on a Node panic and
\* change nothing, and add_child of a Root into a Node panics and changes
\* nothing.
C30_NodeHasNoState ==
    [][/\ (result'.id = "node" /\ result'.op \in NodeMethods) =>
            /\ ~result'.ok
            /\ UNCHANGED <<allocVars, chanVars, modelVars, histVars>>
       /\ \A m \in Models, i \in 1..MaxNodes, other \in OtherRoots :
            NodeAddChild(m, i, other) =>
               /\ ~result'.ok
               /\ UNCHANGED <<allocVars, chanVars, modelVars, histVars>>]_vars

\* destroy was called on the Node of an Awake Root: it panicked, the Root is
\* still Awake and no destroy request was raised
C30_Witness ==
    /\ result.id = "node" /\ result.op = "destroy" /\ ~result.ok
    /\ state["root"].tag = "Awake"
    /\ Len(sub_handles["root"]) = 1
    /\ destroy_requests = <<>>
\* C31: a send_action that fails was made after the allocator was dropped and
\* leaves the handles, the allocator and both queues as they were; one that
\* succeeds was made while the allocator lives and appends the whole action,
\* with the handle's offset added, to the modify queue and changes nothing else.
C31_SendAllOrNothing ==
    [][result'.op = "send_action" =>
          IF result'.ok
          THEN /\ ~dropped
               /\ \E a \in ActShapes :
                     action_queue' = Append(action_queue,
                        [offset |-> handles[result'.h].offset + a[1],
                         size |-> a[2], seq |-> Len(sent) + 1])
               /\ UNCHANGED <<handles, packets, size, destroy_requests>>
          ELSE /\ dropped
               /\ UNCHANGED <<handles, packets, size, action_queue,
                              destroy_requests, sent>>]_vars

\* a handle that sent one action while the allocator lived has failed to send
\* a second one after the drop
C31_Witness ==
    /\ result.op = "send_action" /\ ~result.ok
    /\ dropped
    /\ Len(sent) = 1 /\ sent[1].h = result.h
    /\ action_queue = <<>>
\* C32: free of a live id returns Some, leaves the removed handle marked
\* destroyed whether or not it was marked before, and returns the offset and
\* size the handle had when free was called.
C32_FreeReturnsFormer ==
    [][\A id \in Ids :
          (packets[id] # NoHandle /\ result'.op = "free" /\ result'.id = id) =>
             /\ result'.ok
             /\ handles'[packets[id]].destroyed
             /\ result'.offset = handles[packets[id]].offset
             /\ result'.size = handles[packets[id]].size
             /\ handles'[packets[id]].offset = handles[packets[id]].offset]_vars

\* the second allocation, already marked by its holder's destroy(), was freed:
\* free returned its region behind the first allocation
C32_Witness ==
    /\ result.op = "free" /\ result.ok
    /\ result.offset = MaxSize /\ result.size = MaxSize
    /\ destroy_requests = <<result.id, result.id>>
    /\ handles[result.h].destroyed
    /\ \E id \in Ids : packets[id] # NoHandle
\* C33: translate on a Dormant or DormantIndexed Root moves every vertex of the
\* geometry by the delta, keeps the indices and the kind of state, and sends
\* nothing: the modify queue and the destroy queue are as before.
C33_DormantTranslatesInPlace ==
    [][\A m \in Models, d \in Deltas :
          (state[m].tag \in {"Dormant", "DormantIndexed"} /\ Translate(m, d)) =>
             /\ result'.ok
             /\ state'[m].tag = state[m].tag
             /\ DOMAIN state'[m].vertices = DOMAIN state[m].vertices
             /\ \A i \in DOMAIN state[m].vertices :
                   state'[m].vertices[i] = state[m].vertices[i] + d
             /\ state'[m].indices = state[m].indices
             /\ UNCHANGED <<action_queue, destroy_requests, sent>>]_vars

\* a DormantIndexed Root has been translated by +1 with an allocation made
\* but no wake: both vertices moved, nothing was sent
C33_Witness ==
    /\ result.op = "translate" /\ result.ok
    /\ state["root"].tag = "DormantIndexed"
    /\ state["root"].vertices = <<1, 2>>
    /\ transform["root"] = 1
    /\ handles # <<>>
    /\ sent = <<>> /\ action_queue = <<>>
\* C34: add_child of a Node into a Node gives the incoming Node the offset it
\* came with plus the parent's size before the call, adds the incoming size
\* to the parent's size, and leaves the Root's state, the parent's offset and
\* earlier children and every other Node as they were.
C34_NodeIntoNode ==
    [][\A m \in Models, i \in 1..MaxNodes, other \in OtherNodes :
          NodeAddChild(m, i, other) =>
             LET parent == sub_handles[m][i]
                 after  == sub_handles'[m][i]
                 k      == Len(parent.sub_handles)
             IN  /\ result'.ok
                 /\ after.location.offset = parent.location.offset
                 /\ after.location.size = parent.location.size + other.location.size
                 /\ Len(after.sub_handles) = k + 1
                 /\ SubSeq(after.sub_handles, 1, k) = parent.sub_handles
                 /\ after.sub_handles[k + 1].location =
                       [offset |-> other.location.offset + parent.location.size,
                        size   |-> other.location.size]
                 /\ after.sub_handles[k + 1].sub_handles = other.sub_handles
                 /\ \A j \in DOMAIN sub_handles[m] :
                       j # i => sub_handles'[m][j] = sub_handles[m][j]
                 /\ UNCHANGED <<state, allocVars>>]_vars

\* the Node {0, 2} of a Root took the Node {1, 1}: it is {0, 3} now and the
\* incoming Node sits at offset 1 + 2
C34_Witness ==
    /\ result.op = "node_add_child" /\ result.ok
    /\ Len(sub_handles["root"]) = 1
    /\ sub_handles["root"][1].location = [offset |-> 0, size |-> 3]
    /\ Len(sub_handles["root"][1].sub_handles) = 1
    /\ sub_handles["root"][1].sub_handles[1].location = [offset |-> 3, size |-> 1]
\* C35: with the owner thread alone calling allocate, free and
\* get_destroyed_handles, and no holder ever calling destroy(), every
\* get_destroyed_handles returns the empty list.
C35_FreeRaisesNothing ==
    result.op = "get_destroyed_handles" => result.ids = <<>>
\* C36: the owner's cycle removes an allocation only if a holder has called
\* destroy() on the handle registered for it: a live handle whose destroyed
\* flag is not set is still registered after the cycle.
C36_OnlyDestroyedAreFreed ==
    [][\A id \in Ids :
          (/\ result'.op = "free_destroyed"
           /\ packets[id] # NoHandle
           /\ ~handles[packets[id]].destroyed) =>
             packets'[id] = packets[id]]_vars
\* C37: every action the last update call delivered for a handle that is
\* still registered carries the handle's current offset plus the relative
\* offset it was sent with.
C37_DeliveredAtCurrentOffset ==
    result.op = "update" =>
       \A i \in DOMAIN updates :
          LET s == sent[updates[i].seq]
          IN  s.h \in LiveHandles =>
                 updates[i].offset = handles[s.h].offset + s.rel
\* C38: once allocate has been called with an id that was live, the sizes of
\* the registered handles still add up to size() and every element of
\* [0, size()) lies in the region of exactly one registered handle.
C38_DuplicateIdConsistent ==
    overwritten =>
       /\ SumSizes(LiveHandles) = size
       /\ \A e \in 0..(size - 1) :
             Cardinality({h \in LiveHandles : e \in Region(handles[h])}) = 1
C40_FailedTranslateNoEffect ==
    [][\A m \in Models, d \in Deltas :
          (state[m].tag = "Destroyed" /\ Translate(m, d)) =>
             /\ ~result'.ok
             /\ transform'[m] = transform[m]
             /\ ctx'[m] = ctx[m]]_vars
====
